---------------------------- MODULE Spec2Model ----------------------------
(***************************************************************************)
(* Model of the LTRF216A ambient light sensor driver                       *)
(* (drivers/iio/light/ltrf216a.c).                                         *)
(*                                                                         *)
(* One device session (struct ltrf216a_data) is shared by                  *)
(*   - NumQueryThreads measurement call paths, each running                *)
(*     ltrf216a_read_raw / ltrf216a_write_raw, and                         *)
(*   - one host call path running the lifecycle and power callbacks        *)
(*     ltrf216a_probe / _remove / _suspend / _resume.                      *)
(* A step of a call path is one blocking point of the code (a mutex_lock   *)
(* or one SMBus transaction) together with the local code that follows it  *)
(* up to the next blocking point.                                          *)
(***************************************************************************)
EXTENDS Integers, Sequences, FiniteSets, TLC

(***************************************************************************)
(* Bounds of the model.                                                    *)
(***************************************************************************)
NumQueryThreads == 2

QueryThreads == 1..NumQueryThreads

(***************************************************************************)
(* Register map (ltrf216a.c:23-41) and kernel constants.                   *)
(***************************************************************************)
LTRF216A_MAIN_CTRL == 0
LTRF216A_ALS_GAIN == 5
LTRF216A_ALS_MEAS_RATE == 4
LTRF216A_CLEAR_DATA_0 == 10
LTRF216A_ALS_DATA_0 == 13

EINVAL == 22
IIO_VAL_INT == 1
IIO_VAL_INT_PLUS_MICRO == 2

\* static const int int_time_mapping[] (ltrf216a.c:43); C index i is i+1 here.
int_time_mapping == <<400000, 200000, 100000, 50000, 25000>>

\* ARRAY_SIZE(int_time_mapping)
ARRAY_SIZE_int_time_mapping == Len(int_time_mapping)

\* ltrf216a_channels[].address (ltrf216a.c:60-63)
ltrf216a_channels == <<LTRF216A_CLEAR_DATA_0, LTRF216A_ALS_DATA_0>>

(***************************************************************************)
(* Inputs the environment may supply.                                      *)
(***************************************************************************)
\* negative errno values an SMBus transfer may return (-EIO, -ETIMEDOUT)
BusErrors == {-5, -110}

\* results of iio_device_register: 0 or a negative errno (-ENOMEM)
RegisterResults == {0, -12}

\* byte values a data register read may return
DataBytes == {0, 1, 16, 32, 127, 128, 255}

\* byte values a read of the control register may return
CtrlBytes == {0, 2, 240, 255}

\* info masks the framework may pass
Masks == {"RAW", "INT_TIME", "SCALE"}

\* (val, val2) pairs the framework may pass to write_raw
WriteVals == {0, 1}
WriteVal2s == {400000, 200000, 100000, 50000, 25000,
               0, 4, 25001, 300000, 400001}

(***************************************************************************)
(* Bit arithmetic on non-negative ints, computed bit by bit.               *)
(***************************************************************************)
RECURSIVE BitOr(_, _)
BitOr(a, b) ==
    IF a = 0 THEN b
    ELSE IF b = 0 THEN a
    ELSE (IF (a % 2 = 1) \/ (b % 2 = 1) THEN 1 ELSE 0)
         + 2 * BitOr(a \div 2, b \div 2)

RECURSIVE Pow2(_)
Pow2(n) == IF n = 0 THEN 1 ELSE 2 * Pow2(n - 1)

\* x << n on a C int.  Every operand the driver shifts lies in -4095..255 and
\* n <= 16, so the product stays inside the 32-bit range and no wrap-around
\* is produced (the kernel is built with -fno-strict-overflow: a negative
\* left operand shifts as two's complement, i.e. multiplies).
Shl(x, n) == x * Pow2(n)


(***************************************************************************)
(* Pure parts of the driver.                                               *)
(***************************************************************************)
\* The lookup loop of ltrf216a_set_it_time (ltrf216a.c:112-120), entered at
\* C index i: the first index whose table entry equals itime, else -1.
RECURSIVE set_it_time_lookup(_, _)
set_it_time_lookup(i, itime) ==
    IF i >= ARRAY_SIZE_int_time_mapping THEN -1
    ELSE IF int_time_mapping[i + 1] = itime THEN i
    ELSE set_it_time_lookup(i + 1, itime)

\* distance of itime from table entry i (C index)
TableDistance(i, itime) ==
    IF int_time_mapping[i + 1] >= itime
    THEN int_time_mapping[i + 1] - itime
    ELSE itime - int_time_mapping[i + 1]

\* a lookup that rounds to the nearest table entry
set_it_time_index_nearest(itime) ==
    CHOOSE i \in 0..(ARRAY_SIZE_int_time_mapping - 1) :
        \A j \in 0..(ARRAY_SIZE_int_time_mapping - 1) :
            \/ TableDistance(i, itime) < TableDistance(j, itime)
            \/ (TableDistance(i, itime) = TableDistance(j, itime) /\ i <= j)

set_it_time_index(itime) == set_it_time_lookup(0, itime)

\* the encoding with the shift formula applied to every index
set_it_time_reg_formula_only(index) == BitOr(Shl(index, 4), 2) % 256

\* u8 reg of ltrf216a_set_it_time (ltrf216a.c:125-130)
set_it_time_reg(index) ==
    IF index = 0 THEN 3
    ELSE IF index = 1 THEN 19
    ELSE BitOr(Shl(index, 4), 2) % 256

\* the cache committed before the result of the write is looked at
set_it_time_commit_unchecked(cur, index, itime, ret) == itime

\* data->int_time after the write of ltrf216a_set_it_time returned ret
\* (ltrf216a.c:132-137); cur is the value before the call.
set_it_time_commit(cur, index, itime, ret) ==
    IF ret < 0 THEN cur ELSE itime

\* return value of ltrf216a_set_it_time after its write returned ret
set_it_time_return(ret) == IF ret < 0 THEN ret ELSE 0

\* the cached microseconds reported in milliseconds
get_it_time_val2_millis(cached) == cached \div 1000

\* *val2 of ltrf216a_get_it_time (ltrf216a.c:142-143)
get_it_time_val2(cached) == cached

\* the three bytes combined in the opposite order
read_data_value_swapped(val_0, val_1, val_2) ==
    Shl(val_0, 16) + Shl(val_1, 8) + val_2

\* return value of ltrf216a_read_data (ltrf216a.c:155)
read_data_value(val_0, val_1, val_2) ==
    Shl(val_2, 16) + Shl(val_1, 8) + val_0

\* what ltrf216a_read_raw hands back for IIO_CHAN_INFO_RAW (ltrf216a.c:169-175)
read_raw_return(ret) == IF ret < 0 THEN ret ELSE IIO_VAL_INT

\* the wrong bit (bit 0) set as the enable bit
init_ctrl_value_bit0(ret) == BitOr(ret, 1)

\* the enable bit assigned instead of or-ed in
init_ctrl_value_overwrite(ret) == 2

\* the byte ltrf216a_init writes back (ltrf216a.c:88)
init_ctrl_value(ret) == BitOr(ret, 2)

(***************************************************************************)
(* State.                                                                  *)
(***************************************************************************)
VARIABLES
    pc,         \* pc[t]: position of measurement call path t
    frame,      \* frame[t]: arguments and locals of the call t is in
    txns,       \* txns[t]: SMBus transactions issued by t's current call
    hpc,        \* position of the host (lifecycle / power) call path
    hframe,     \* the host call's callback name and its local ret
    htxns,      \* SMBus transactions issued by the host's current callback
    mutex,      \* data->mutex: the set of its holders
    int_time,   \* data->int_time
    registered, \* the iio device is registered with the framework
    main_ctrl,  \* device: last byte successfully written to MAIN_CTRL
    lastSet     \* integration time of the last ALS_MEAS_RATE write that
                \* succeeded in this session (<<>> if none)

qvars == <<pc, frame, txns>>
hvars == <<hpc, hframe, htxns>>
vars == <<pc, frame, txns, hpc, hframe, htxns, mutex, int_time,
          registered, main_ctrl, lastSet>>

Frame0 ==
    [fn |-> "none", mask |-> "none", addr |-> 0, val |-> 0, val2 |-> 0,
     index |-> 0, reg |-> 0, val_0 |-> 0, val_1 |-> 0, val_2 |-> 0,
     ret |-> 0, out_val |-> 0, out_val2 |-> 0, rv |-> 0]

HFrame0 == [op |-> "none", ret |-> 0]

\* one recorded transaction: ret is the byte read, 0 for a write that
\* succeeded, or the negative errno; val is the byte written (0 for a read)
Txn(op, addr, val, ret) == [op |-> op, addr |-> addr, val |-> val, ret |-> ret]

Init ==
    /\ pc = [t \in QueryThreads |-> "idle"]
    /\ frame = [t \in QueryThreads |-> Frame0]
    /\ txns = [t \in QueryThreads |-> <<>>]
    /\ hpc = "unbound"
    /\ hframe = HFrame0
    /\ htxns = <<>>
    /\ mutex = {}
    /\ int_time = 0
    /\ registered = FALSE
    /\ main_ctrl = <<>>
    /\ lastSet = <<>>

(***************************************************************************)
(* The session guard.                                                      *)
(***************************************************************************)
\* a handler that enters its critical section without waiting for the guard
mutex_lock_no_wait(t) == mutex' = mutex \cup {t}

mutex_lock(t) == mutex = {} /\ mutex' = {t}

\* a return path that leaves without releasing the guard
mutex_unlock_skipped(t) == mutex' = mutex

mutex_unlock(t) == mutex' = mutex \ {t}

\* leave the handler: the frame and the call's transaction record go away
Leave(t) ==
    /\ pc' = [pc EXCEPT ![t] = "idle"]
    /\ frame' = [frame EXCEPT ![t] = Frame0]
    /\ txns' = [txns EXCEPT ![t] = <<>>]

(***************************************************************************)
(* ltrf216a_read_raw (ltrf216a.c:158-184)                                  *)
(***************************************************************************)
\* Entry: the switch on mask (ltrf216a.c:165-166, 176, 181-182).  The two
\* served masks go on to mutex_lock, where the call path may have to wait.
ReadRawCall(t, chan, mask) ==
    /\ pc[t] = "idle"
    /\ registered
    /\ IF mask = "RAW" THEN
           /\ pc' = [pc EXCEPT ![t] = "rr_lock"]
           /\ frame' = [frame EXCEPT ![t] =
                  [Frame0 EXCEPT !.fn = "read_raw", !.mask = mask,
                                 !.addr = ltrf216a_channels[chan]]]
       ELSE IF mask = "INT_TIME" THEN
           /\ pc' = [pc EXCEPT ![t] = "it_lock"]
           /\ frame' = [frame EXCEPT ![t] =
                  [Frame0 EXCEPT !.fn = "read_raw", !.mask = mask]]
       ELSE
           /\ pc' = [pc EXCEPT ![t] = "ret"]
           /\ frame' = [frame EXCEPT ![t] =
                  [Frame0 EXCEPT !.fn = "read_raw", !.mask = mask,
                                 !.rv = -EINVAL]]
    /\ UNCHANGED <<txns, hvars, mutex, int_time, registered, main_ctrl,
                   lastSet>>

\* case IIO_CHAN_INFO_RAW: mutex_lock(&data->mutex)   (ltrf216a.c:167)
ReadRawLock(t) ==
    /\ pc[t] = "rr_lock"
    /\ mutex_lock(t)
    /\ pc' = [pc EXCEPT ![t] = "rd0"]
    /\ UNCHANGED <<frame, txns, hvars, int_time, registered, main_ctrl,
                   lastSet>>

\* a get that reads the measurement-rate register back from the device
IntTimeLock_readback(t) ==
    /\ pc[t] = "it_lock"
    /\ mutex_lock(t)
    /\ pc' = [pc EXCEPT ![t] = "it_unlock"]
    /\ txns' = [txns EXCEPT ![t] = Append(@, [op |-> "rd", addr |-> 4,
                                              val |-> 0, ret |-> 34])]
    /\ frame' = [frame EXCEPT ![t].out_val = 0,
                              ![t].out_val2 = 100000,
                              ![t].ret = 2,
                              ![t].rv = 2]
    /\ UNCHANGED <<hvars, int_time, registered, main_ctrl, lastSet>>

\* case IIO_CHAN_INFO_INT_TIME: mutex_lock and ltrf216a_get_it_time
\* (ltrf216a.c:177-178, 140-146)
IntTimeLock(t) ==
    /\ pc[t] = "it_lock"
    /\ mutex_lock(t)
    /\ pc' = [pc EXCEPT ![t] = "it_unlock"]
    /\ frame' = [frame EXCEPT ![t].out_val = 0,
                              ![t].out_val2 = get_it_time_val2(int_time),
                              ![t].ret = IIO_VAL_INT_PLUS_MICRO,
                              ![t].rv = IIO_VAL_INT_PLUS_MICRO]
    /\ UNCHANGED <<txns, hvars, int_time, registered, main_ctrl, lastSet>>

\* val_0 = i2c_smbus_read_byte_data(client, addr)   (ltrf216a.c:152)
ReadData0(t, res) ==
    /\ pc[t] = "rd0"
    /\ txns' = [txns EXCEPT ![t] = Append(@, Txn("rd", frame[t].addr, 0, res))]
    /\ frame' = [frame EXCEPT ![t].val_0 = res]
    /\ pc' = [pc EXCEPT ![t] = "rd1"]
    /\ UNCHANGED <<hvars, mutex, int_time, registered, main_ctrl, lastSet>>

\* val_1 = i2c_smbus_read_byte_data(client, addr + 1)   (ltrf216a.c:153)
ReadData1(t, res) ==
    /\ pc[t] = "rd1"
    /\ txns' = [txns EXCEPT ![t] =
                   Append(@, Txn("rd", frame[t].addr + 1, 0, res))]
    /\ frame' = [frame EXCEPT ![t].val_1 = res]
    /\ pc' = [pc EXCEPT ![t] = "rd2"]
    /\ UNCHANGED <<hvars, mutex, int_time, registered, main_ctrl, lastSet>>

\* val_2 = i2c_smbus_read_byte_data(client, addr + 2), the return of
\* ltrf216a_read_data and the test of it in read_raw (ltrf216a.c:154-173)
ReadData2(t, res) ==
    /\ pc[t] = "rd2"
    /\ txns' = [txns EXCEPT ![t] =
                   Append(@, Txn("rd", frame[t].addr + 2, 0, res))]
    /\ LET ret == read_data_value(frame[t].val_0, frame[t].val_1, res)
       IN frame' = [frame EXCEPT ![t].val_2 = res,
                                 ![t].ret = ret,
                                 ![t].out_val = IF ret < 0 THEN @ ELSE ret,
                                 ![t].rv = read_raw_return(ret)]
    /\ pc' = [pc EXCEPT ![t] = "rr_unlock"]
    /\ UNCHANGED <<hvars, mutex, int_time, registered, main_ctrl, lastSet>>

\* mutex_unlock and return, of either served mask (ltrf216a.c:170-175, 179-180)
ReadRawUnlock(t) ==
    /\ pc[t] \in {"rr_unlock", "it_unlock"}
    /\ mutex_unlock(t)
    /\ Leave(t)
    /\ UNCHANGED <<hvars, int_time, registered, main_ctrl, lastSet>>

\* return -EINVAL of a handler that took no lock (ltrf216a.c:182, 196, 202)
Return(t) ==
    /\ pc[t] = "ret"
    /\ Leave(t)
    /\ UNCHANGED <<hvars, mutex, int_time, registered, main_ctrl, lastSet>>

(***************************************************************************)
(* ltrf216a_write_raw (ltrf216a.c:186-204) with ltrf216a_set_it_time       *)
(***************************************************************************)
\* an entry that does not look at the integer part of the request
WriteRawCall_ignore_val(t, mask, val, val2) ==
    /\ pc[t] = "idle"
    /\ registered
    /\ pc' = [pc EXCEPT ![t] = IF mask # "INT_TIME" THEN "ret" ELSE "wr_lock"]
    /\ frame' = [frame EXCEPT ![t] =
           [Frame0 EXCEPT !.fn = "write_raw", !.mask = mask,
                          !.val = val, !.val2 = val2,
                          !.rv = IF mask # "INT_TIME" THEN -EINVAL ELSE 0]]
    /\ UNCHANGED <<txns, hvars, mutex, int_time, registered, main_ctrl,
                   lastSet>>

\* Entry: the switch on mask and the test of val (ltrf216a.c:193-196,
\* 201-202); a well-formed request goes on to mutex_lock.
WriteRawCall(t, mask, val, val2) ==
    /\ pc[t] = "idle"
    /\ registered
    /\ pc' = [pc EXCEPT ![t] =
                 IF mask # "INT_TIME" \/ val # 0 THEN "ret" ELSE "wr_lock"]
    /\ frame' = [frame EXCEPT ![t] =
           [Frame0 EXCEPT !.fn = "write_raw", !.mask = mask,
                          !.val = val, !.val2 = val2,
                          !.rv = IF mask # "INT_TIME" \/ val # 0
                                 THEN -EINVAL ELSE 0]]
    /\ UNCHANGED <<txns, hvars, mutex, int_time, registered, main_ctrl,
                   lastSet>>

\* mutex_lock, then the table lookup and the encoding of
\* ltrf216a_set_it_time up to its bus write (ltrf216a.c:197-198, 112-130)
WriteRawLock(t) ==
    /\ pc[t] = "wr_lock"
    /\ mutex_lock(t)
    /\ LET index == set_it_time_index(frame[t].val2)
       IN IF index < 0 THEN
              /\ pc' = [pc EXCEPT ![t] = "wr_unlock"]
              /\ frame' = [frame EXCEPT ![t].index = index,
                                        ![t].ret = -EINVAL,
                                        ![t].rv = -EINVAL]
          ELSE
              /\ pc' = [pc EXCEPT ![t] = "wr_bus"]
              /\ frame' = [frame EXCEPT ![t].index = index,
                                        ![t].reg = set_it_time_reg(index)]
    /\ UNCHANGED <<txns, hvars, int_time, registered, main_ctrl, lastSet>>

\* i2c_smbus_write_byte_data(client, ALS_MEAS_RATE, reg) and the commit of
\* data->int_time (ltrf216a.c:132-137)
SetItTimeWrite(t, res) ==
    /\ pc[t] = "wr_bus"
    /\ txns' = [txns EXCEPT ![t] =
           Append(@, Txn("wr", LTRF216A_ALS_MEAS_RATE, frame[t].reg, res))]
    /\ int_time' = set_it_time_commit(int_time, frame[t].index,
                                      frame[t].val2, res)
    /\ lastSet' = IF res < 0 THEN lastSet ELSE <<frame[t].val2>>
    /\ frame' = [frame EXCEPT ![t].ret = set_it_time_return(res),
                              ![t].rv = set_it_time_return(res)]
    /\ pc' = [pc EXCEPT ![t] = "wr_unlock"]
    /\ UNCHANGED <<hvars, mutex, registered, main_ctrl>>

\* mutex_unlock and return ret (ltrf216a.c:199-200)
WriteRawUnlock(t) ==
    /\ pc[t] = "wr_unlock"
    /\ mutex_unlock(t)
    /\ Leave(t)
    /\ UNCHANGED <<hvars, int_time, registered, main_ctrl, lastSet>>


(***************************************************************************)
(* The device as the bus sees it.                                          *)
(***************************************************************************)
\* MAIN_CTRL after a write of val to it returned res
CtrlAfterWrite(val, res) == IF res < 0 THEN main_ctrl ELSE <<val>>

(***************************************************************************)
(* Host call path: ltrf216a_probe, _remove, _suspend, _resume              *)
(* (ltrf216a.c:212-277) with ltrf216a_init and ltrf216a_disable            *)
(* (ltrf216a.c:76-108).  The driver core and the PM core serialize these   *)
(* callbacks of one device, so one call path runs them.  None of them      *)
(* takes data->mutex.                                                      *)
(***************************************************************************)
\* ltrf216a_probe up to the call of ltrf216a_init (ltrf216a.c:219-236):
\* devm_iio_device_alloc hands out zeroed private data, mutex_init.
ProbeCall ==
    /\ hpc = "unbound"
    /\ hpc' = "init_rd"
    /\ hframe' = [op |-> "probe", ret |-> 0]
    /\ htxns' = <<>>
    /\ int_time' = 0
    /\ mutex' = {}
    /\ lastSet' = <<>>
    /\ UNCHANGED <<qvars, registered, main_ctrl>>

\* ltrf216a_resume calls ltrf216a_init (ltrf216a.c:272-277)
ResumeCall ==
    /\ hpc = "suspended"
    /\ hpc' = "init_rd"
    /\ hframe' = [op |-> "resume", ret |-> 0]
    /\ htxns' = <<>>
    /\ UNCHANGED <<qvars, mutex, int_time, registered, main_ctrl, lastSet>>

\* ltrf216a_init: ret = i2c_smbus_read_byte_data(client, MAIN_CTRL); on
\* failure return ret, else ret |= 0x02 (ltrf216a.c:81-88)
InitRead(res) ==
    /\ hpc = "init_rd"
    /\ htxns' = Append(htxns, Txn("rd", LTRF216A_MAIN_CTRL, 0, res))
    /\ IF res < 0 THEN
           /\ hframe' = [hframe EXCEPT !.ret = res]
           /\ hpc' = "h_ret"
       ELSE
           /\ hframe' = [hframe EXCEPT !.ret = init_ctrl_value(res)]
           /\ hpc' = "init_wr"
    /\ UNCHANGED <<qvars, mutex, int_time, registered, main_ctrl, lastSet>>

\* the status of the write dropped
init_return_ignored(res) == 0

\* value ltrf216a_init returns after its write returned res (ltrf216a.c:89-95)
init_return(res) == IF res < 0 THEN res ELSE 0

\* ltrf216a_init: ret = i2c_smbus_write_byte_data(client, MAIN_CTRL, ret) and
\* the caller's test of the result (ltrf216a.c:89-95, 236-240, 276)
InitWrite(res) ==
    /\ hpc = "init_wr"
    /\ htxns' = Append(htxns, Txn("wr", LTRF216A_MAIN_CTRL, hframe.ret, res))
    /\ main_ctrl' = CtrlAfterWrite(hframe.ret, res)
    /\ hframe' = [hframe EXCEPT !.ret = init_return(res)]
    /\ hpc' = IF hframe.op = "probe" /\ init_return(res) >= 0
              THEN "register" ELSE "h_ret"
    /\ UNCHANGED <<qvars, mutex, int_time, registered, lastSet>>

\* ret = iio_device_register(indio_dev); on failure goto err_init
\* (ltrf216a.c:242-248)
ProbeRegister(res) ==
    /\ hpc = "register"
    /\ hframe' = [hframe EXCEPT !.ret = res]
    /\ IF res < 0 THEN
           /\ hpc' = "dis_wr"
           /\ UNCHANGED registered
       ELSE
           /\ hpc' = "h_ret"
           /\ registered' = TRUE
    /\ UNCHANGED <<qvars, htxns, mutex, int_time, main_ctrl, lastSet>>

\* ltrf216a_suspend calls ltrf216a_disable (ltrf216a.c:265-270)
SuspendCall ==
    /\ hpc = "active"
    /\ hpc' = "dis_wr"
    /\ hframe' = [op |-> "suspend", ret |-> 0]
    /\ htxns' = <<>>
    /\ UNCHANGED <<qvars, mutex, int_time, registered, main_ctrl, lastSet>>

\* remove that disables the device without unregistering it first
RemoveCall_disable_first ==
    /\ hpc = "active"
    /\ hpc' = "dis_wr"
    /\ hframe' = [op |-> "remove", ret |-> 0]
    /\ htxns' = <<>>
    /\ UNCHANGED <<qvars, mutex, int_time, registered, main_ctrl, lastSet>>

\* ltrf216a_remove: iio_device_unregister(indio_dev) (ltrf216a.c:254-258).
\* From here the framework starts no new read_raw / write_raw.
RemoveCall ==
    /\ hpc = "active"
    /\ hpc' = "unregister"
    /\ hframe' = [op |-> "remove", ret |-> 0]
    /\ htxns' = <<>>
    /\ registered' = FALSE
    /\ UNCHANGED <<qvars, mutex, int_time, main_ctrl, lastSet>>

\* iio_device_unregister returns once the handlers in flight have returned
\* (ltrf216a.c:258)
UnregisterDone ==
    /\ hpc = "unregister"
    /\ \A t \in QueryThreads : pc[t] = "idle"
    /\ hpc' = "dis_wr"
    /\ UNCHANGED <<qvars, hframe, htxns, mutex, int_time, registered,
                   main_ctrl, lastSet>>

\* suspend reporting success whatever the write returned
disable_caller_return_suspend_ok(op, ret, res) ==
    IF op = "probe" THEN ret ELSE 0

\* probe returning the result of its cleanup instead of the registration error
disable_caller_return_cleanup(op, ret, res) ==
    IF op = "remove" THEN 0 ELSE res

\* what the callback returns after ltrf216a_disable returned res:
\* probe keeps the registration error (ltrf216a.c:250-251), remove returns 0
\* (ltrf216a.c:259-261), suspend returns res (ltrf216a.c:269)
disable_caller_return(op, ret, res) ==
    IF op = "probe" THEN ret
    ELSE IF op = "remove" THEN 0
    ELSE res

\* ltrf216a_disable: i2c_smbus_write_byte_data(client, MAIN_CTRL, 0)
\* (ltrf216a.c:98-108)
DisableWrite(res) ==
    /\ hpc = "dis_wr"
    /\ htxns' = Append(htxns, Txn("wr", LTRF216A_MAIN_CTRL, 0, res))
    /\ main_ctrl' = CtrlAfterWrite(0, res)
    /\ hframe' = [hframe EXCEPT
                     !.ret = disable_caller_return(hframe.op, hframe.ret, res)]
    /\ hpc' = "h_ret"
    /\ UNCHANGED <<qvars, mutex, int_time, registered, lastSet>>

\* where the host call path is once the callback has returned ret
host_after(op, ret) ==
    IF op = "probe" THEN (IF ret < 0 THEN "unbound" ELSE "active")
    ELSE IF op = "remove" THEN "unbound"
    ELSE IF op = "suspend" THEN (IF ret < 0 THEN "active" ELSE "suspended")
    ELSE "active"

\* the callback returns hframe.ret to the driver core / PM core
HostReturn ==
    /\ hpc = "h_ret"
    /\ hpc' = host_after(hframe.op, hframe.ret)
    /\ hframe' = HFrame0
    /\ htxns' = <<>>
    /\ UNCHANGED <<qvars, mutex, int_time, registered, main_ctrl, lastSet>>

(***************************************************************************)
(* Specifications.                                                         *)
(***************************************************************************)
QueryStep(t, DataOutcomes, WriteOutcomes, WriteArgs) ==
    \/ \E chan \in DOMAIN ltrf216a_channels, mask \in Masks :
           ReadRawCall(t, chan, mask)
    \/ ReadRawLock(t)
    \/ IntTimeLock(t)
    \/ \E res \in DataOutcomes : ReadData0(t, res)
    \/ \E res \in DataOutcomes : ReadData1(t, res)
    \/ \E res \in DataOutcomes : ReadData2(t, res)
    \/ ReadRawUnlock(t)
    \/ Return(t)
    \/ \E a \in WriteArgs : WriteRawCall(t, a[1], a[2], a[3])
    \/ WriteRawLock(t)
    \/ \E res \in WriteOutcomes : SetItTimeWrite(t, res)
    \/ WriteRawUnlock(t)

HostStep(CtrlOutcomes, WriteOutcomes) ==
    \/ ProbeCall
    \/ ResumeCall
    \/ \E res \in CtrlOutcomes : InitRead(res)
    \/ \E res \in WriteOutcomes : InitWrite(res)
    \/ \E res \in RegisterResults : ProbeRegister(res)
    \/ SuspendCall
    \/ RemoveCall
    \/ UnregisterDone
    \/ \E res \in WriteOutcomes : DisableWrite(res)
    \/ HostReturn

\* What the bus returns and what the framework asks for in the concurrent
\* specification: one byte and one errno per transfer, both channels, and
\* write requests of each kind (well-formed with a table value, well-formed
\* with a value outside the table, nonzero integer part, unserved mask).
ConcDataOutcomes == {16, -5}
ConcCtrlOutcomes == {240, -5}
ConcWriteOutcomes == {0, -5}
ConcWriteArgs ==
    {<<"INT_TIME", 0, 400000>>, <<"INT_TIME", 0, 25000>>,
     <<"INT_TIME", 0, 300000>>, <<"INT_TIME", 1, 400000>>,
     <<"RAW", 0, 400000>>}

Next ==
    \/ \E t \in QueryThreads :
           QueryStep(t, ConcDataOutcomes, ConcWriteOutcomes, ConcWriteArgs)
    \/ HostStep(ConcCtrlOutcomes, ConcWriteOutcomes)

\* every interleaving of the measurement call paths and the host call path
Spec == Init /\ [][Next]_vars

\* What the bus returns and what the framework asks for when one call runs
\* at a time: every byte and errno of the input sets above.
SeqDataOutcomes == DataBytes \cup BusErrors
SeqCtrlOutcomes == CtrlBytes \cup BusErrors
SeqWriteOutcomes == {0} \cup BusErrors
SeqWriteArgs ==
    {<<mask, val, val2>> : mask \in {"INT_TIME", "RAW"}, val \in WriteVals,
                           val2 \in WriteVal2s}

\* no callback of the host call path is running
HostQuiet == hpc \in {"unbound", "active", "suspended"}

SeqNext ==
    \/ \E t \in QueryThreads :
           /\ HostQuiet
           /\ \A u \in QueryThreads \ {t} : pc[u] = "idle"
           /\ QueryStep(t, SeqDataOutcomes, SeqWriteOutcomes, SeqWriteArgs)
    \/ /\ \A t \in QueryThreads : pc[t] = "idle"
       /\ HostStep(SeqCtrlOutcomes, SeqWriteOutcomes)

\* one call at a time, any sequence of calls, all inputs
SeqSpec == Init /\ [][SeqNext]_vars

(***************************************************************************)
(* Properties.                                                             *)
(***************************************************************************)
AllowedTimes == {400000, 200000, 100000, 50000, 25000}

\* the step is a bus transaction of call path t
QueryTxnStep(t) == Len(txns'[t]) = Len(txns[t]) + 1

\* the step is a bus transaction of the host call path
HostTxnStep == Len(htxns') = Len(htxns) + 1

\* call path t has issued the first and not yet the third byte read
ReadInProgress(t) == pc[t] \in {"rd1", "rd2"}

\* C1: no bus transaction of enable() or disable() run by a power transition
\* (suspend, resume) is issued between the first and the third byte read of
\* a readChannel in progress.
C1_PowerExcludesRead ==
    [][\A t \in QueryThreads :
           ReadInProgress(t) =>
               ~(hframe.op \in {"suspend", "resume"} /\ HostTxnStep)]_vars

\* C2: the measurement-rate register write of a setIntegrationTime never
\* falls between the first and the third byte read of a readChannel of
\* another call path.
C2_SetNeverInsideRead ==
    [][\A t \in QueryThreads : \A u \in QueryThreads \ {t} :
           ReadInProgress(t) =>
               ~(QueryTxnStep(u)
                 /\ txns'[u][Len(txns'[u])].op = "wr"
                 /\ txns'[u][Len(txns'[u])].addr = LTRF216A_ALS_MEAS_RATE)]_vars

\* a readChannel is between its byte reads while another call path is inside
\* setIntegrationTime with a table value, waiting for the guard
C2_Witness ==
    \E t \in QueryThreads : \E u \in QueryThreads \ {t} :
        /\ ReadInProgress(t)
        /\ pc[u] = "wr_lock"
        /\ frame[u].val2 \in AllowedTimes

\* some byte read of t's current call failed
SomeReadFailed(t) ==
    \E i \in 1..Len(txns[t]) : txns[t][i].op = "rd" /\ txns[t][i].ret < 0

\* C3: readChannel returns an error, never a sample, whenever any one of its
\* three byte reads fails.
C3_FailedReadReturnsError ==
    \A t \in QueryThreads :
        (pc[t] = "rr_unlock" /\ SomeReadFailed(t)) =>
            (frame[t].rv < 0 /\ frame[t].rv # IIO_VAL_INT)

\* C4: readChannel issues no further bus read after the first failing byte
\* read (a failing read is the last transaction of the call).
C4_NoReadAfterFailure ==
    \A t \in QueryThreads :
        \A i \in 1..Len(txns[t]) :
            (txns[t][i].op = "rd" /\ txns[t][i].ret < 0) => i = Len(txns[t])

\* C5: when all three byte reads succeed, readChannel has read base, base+1,
\* base+2 in that order (base 0x0A or 0x0D) and returns
\* high*65536 + mid*256 + low, a value in 0..2^24-1.
C5_SampleAssembled ==
    \A t \in QueryThreads :
        (pc[t] = "rr_unlock" /\ ~SomeReadFailed(t)) =>
            /\ Len(txns[t]) = 3
            /\ \A i \in 1..3 : txns[t][i].op = "rd"
            /\ txns[t][1].addr \in {10, 13}
            /\ txns[t][2].addr = txns[t][1].addr + 1
            /\ txns[t][3].addr = txns[t][1].addr + 2
            /\ frame[t].rv = IIO_VAL_INT
            /\ frame[t].out_val = txns[t][3].ret * 65536
                                  + txns[t][2].ret * 256 + txns[t][1].ret
            /\ frame[t].out_val \in 0..16777215

\* bytes 0x10, 0x20, 0x01 read from the Light channel gave 0x012010
C5_Witness ==
    \E t \in QueryThreads :
        /\ pc[t] = "rr_unlock"
        /\ txns[t] = <<Txn("rd", 13, 0, 16), Txn("rd", 14, 0, 32),
                       Txn("rd", 15, 0, 1)>>
        /\ frame[t].out_val = 73744

\* the last transaction of t's current call
LastTxn(t) == txns[t][Len(txns[t])]

\* C6: after a setIntegrationTime(v) whose bus write succeeded and no later
\* successful setIntegrationTime, getIntegrationTime returns exactly v (as
\* 0 + v microseconds).
C6_GetReturnsLastSet ==
    \A t \in QueryThreads :
        (pc[t] = "it_unlock" /\ lastSet # <<>>) =>
            /\ lastSet[1] \in AllowedTimes
            /\ frame[t].out_val = 0
            /\ frame[t].out_val2 = lastSet[1]
            /\ frame[t].rv = IIO_VAL_INT_PLUS_MICRO

\* getIntegrationTime has answered 25000 after setIntegrationTime(25000)
C6_Witness ==
    \E t \in QueryThreads :
        /\ pc[t] = "it_unlock"
        /\ lastSet = <<25000>>
        /\ frame[t].out_val2 = 25000

\* call path t performs the bus write of setIntegrationTime in this step
SetWriteStep(t) == pc[t] = "wr_bus" /\ pc'[t] = "wr_unlock"

\* C7: a failed bus write of setIntegrationTime returns the transport error
\* and leaves the cached integration time as it was; within a session the
\* cached value changes only in a step that successfully writes the encoded
\* byte to the measurement-rate register (0x04), to the value requested; so
\* it equals the value last successfully written once a write has succeeded.
C7_WriteThenCommit ==
    [][/\ \A t \in QueryThreads :
              SetWriteStep(t) =>
                  /\ txns'[t] = Append(txns[t],
                         Txn("wr", 4, frame[t].reg, txns'[t][Len(txns'[t])].ret))
                  /\ txns'[t][Len(txns'[t])].ret < 0 =>
                         /\ int_time' = int_time
                         /\ frame'[t].rv = txns'[t][Len(txns'[t])].ret
                  /\ txns'[t][Len(txns'[t])].ret >= 0 =>
                         /\ int_time' = frame[t].val2
                         /\ frame'[t].rv = 0
       /\ (int_time' # int_time /\ hpc # "unbound") =>
              \E t \in QueryThreads :
                  SetWriteStep(t) /\ txns'[t][Len(txns'[t])].ret >= 0
       /\ lastSet' # <<>> => int_time' = lastSet'[1]]_vars

\* a write of setIntegrationTime has failed after an earlier one with another
\* value had succeeded, and the cached value is still the earlier one
C7_Witness ==
    \E t \in QueryThreads :
        /\ pc[t] = "wr_unlock"
        /\ Len(txns[t]) = 1
        /\ LastTxn(t).ret < 0
        /\ frame[t].rv = LastTxn(t).ret
        /\ lastSet # <<>>
        /\ int_time = lastSet[1]
        /\ int_time # frame[t].val2

\* call path t is in a well-formed setIntegrationTime request (integer part
\* 0) whose value is not one of the five table entries
BadValueCall(t) ==
    /\ frame[t].fn = "write_raw"
    /\ frame[t].mask = "INT_TIME"
    /\ frame[t].val = 0
    /\ frame[t].val2 \notin AllowedTimes

\* C8: a setIntegrationTime whose value is not exactly one of the five table
\* entries fails with InvalidArgument, issues no bus write and leaves the
\* cached integration time unchanged.
C8_BadValueRejected ==
    [][\A t \in QueryThreads :
           (BadValueCall(t) /\ pc'[t] # pc[t]) =>
               /\ int_time' = int_time
               /\ txns'[t] = <<>>
               /\ pc[t] = "wr_lock" =>
                      (pc'[t] = "wr_unlock" /\ frame'[t].rv = -EINVAL)
               /\ pc[t] = "wr_unlock" => pc'[t] = "idle"]_vars

\* setIntegrationTime(25001) is about to return -EINVAL while the cached
\* value is the nearest table entry, 25000
C8_Witness ==
    \E t \in QueryThreads :
        /\ pc[t] = "wr_unlock"
        /\ frame[t].val2 = 25001
        /\ frame[t].rv = -EINVAL
        /\ txns[t] = <<>>
        /\ int_time = 25000

\* C9: from a successful attach onward the cached integration time that
\* getIntegrationTime returns is one of the five allowed values.
C9_CachedIsAllowed ==
    \A t \in QueryThreads :
        pc[t] = "it_unlock" => frame[t].out_val2 \in AllowedTimes

\* the encoded byte of each allowed value, as the hardware contract has it
EncodedByte(v) ==
    CASE v = 400000 -> 3
      [] v = 200000 -> 19
      [] v = 100000 -> 34
      [] v = 50000 -> 50
      [] v = 25000 -> 66

\* C10: the byte setIntegrationTime writes to the measurement-rate register
\* is 0x03, 0x13, 0x22, 0x32, 0x42 for 400000, 200000, 100000, 50000, 25000
\* (table indices 0..4); the mapping is total on the five values and
\* injective.
C10_EncodingTable ==
    /\ \A t \in QueryThreads : \A i \in 1..Len(txns[t]) :
           txns[t][i].op = "wr" =>
               /\ txns[t][i].addr = 4
               /\ frame[t].val2 \in AllowedTimes
               /\ txns[t][i].val = EncodedByte(frame[t].val2)
    /\ \A t \in QueryThreads :
           (pc[t] = "wr_bus") =>
               /\ frame[t].val2 \in AllowedTimes
               /\ frame[t].reg = EncodedByte(frame[t].val2)
    /\ \A v \in AllowedTimes :
           /\ set_it_time_index(v) \in 0..4
           /\ int_time_mapping[set_it_time_index(v) + 1] = v
           /\ \A w \in AllowedTimes \ {v} :
                  set_it_time_reg(set_it_time_index(v))
                      # set_it_time_reg(set_it_time_index(w))

\* setIntegrationTime(25000) has written 0x42 to register 0x04
C10_Witness ==
    \E t \in QueryThreads :
        /\ pc[t] = "wr_unlock"
        /\ frame[t].val2 = 25000
        /\ txns[t] = <<Txn("wr", 4, 66, 0)>>

\* the host call path is in enable(): ltrf216a_init run by probe or resume
InEnable == hframe.op \in {"probe", "resume"}

\* r with bit 1 set and every other bit as in r
WithEnableBit(r) == IF (r \div 2) % 2 = 1 THEN r ELSE r + 2

\* C11: for every control-register value r the read returns, enable() writes
\* exactly r with bit 1 set to the control register at 0x00, all other bits
\* as read.
C11_EnablePreservesBits ==
    /\ (hpc = "init_wr") =>
           /\ Len(htxns) = 1
           /\ htxns[1].op = "rd" /\ htxns[1].addr = 0
           /\ htxns[1].ret \in 0..255
           /\ hframe.ret = WithEnableBit(htxns[1].ret)
    /\ (InEnable /\ Len(htxns) >= 2) =>
           /\ htxns[1].op = "rd" /\ htxns[1].addr = 0
           /\ htxns[2].op = "wr" /\ htxns[2].addr = 0
           /\ htxns[2].val = WithEnableBit(htxns[1].ret)
           /\ htxns[2].val \in 0..255

\* enable() has read 0xF0 and written 0xF2
C11_Witness ==
    /\ InEnable
    /\ Len(htxns) >= 2
    /\ htxns[1] = Txn("rd", 0, 0, 240)
    /\ htxns[2] = Txn("wr", 0, 242, 0)

\* C12: enable() returns the transport error if the control-register read
\* fails (and then issues no write) or if the write fails, and returns
\* success only when both succeeded.
C12_EnableReportsFailure ==
    /\ (InEnable /\ Len(htxns) >= 1 /\ htxns[1].ret < 0) =>
           /\ Len(htxns) = 1
           /\ hpc = "h_ret"
           /\ hframe.ret = htxns[1].ret
    /\ (InEnable /\ Len(htxns) >= 2 /\ htxns[2].ret < 0) =>
           /\ Len(htxns) = 2
           /\ hpc = "h_ret"
           /\ hframe.ret = htxns[2].ret
    /\ (hframe.op = "resume" /\ hpc = "h_ret" /\ hframe.ret >= 0) =>
           /\ hframe.ret = 0
           /\ Len(htxns) = 2
           /\ htxns[1].ret >= 0 /\ htxns[2].ret = 0
    /\ (hframe.op = "probe" /\ hpc = "register") =>
           /\ Len(htxns) = 2
           /\ htxns[1].ret >= 0 /\ htxns[2].ret = 0

\* resume's enable() has read the register, failed to write it and is
\* returning the error of the write
C12_Witness ==
    /\ hframe.op = "resume"
    /\ hpc = "h_ret"
    /\ Len(htxns) = 2
    /\ htxns[1].ret >= 0
    /\ htxns[2].ret < 0
    /\ hframe.ret = htxns[2].ret

\* the host call path performs the bus write of disable() in this step
DisableStep == hpc = "dis_wr" /\ hpc' = "h_ret"

\* C13: disable() issues exactly one bus transaction, a write of 0x00 to the
\* control register at 0x00, with no read before it, whatever the register
\* held before; it returns the status of that write (seen where suspend
\* hands it on).
C13_DisableWritesZero ==
    [][/\ DisableStep =>
              /\ htxns' = Append(htxns, Txn("wr", 0, 0, htxns'[Len(htxns')].ret))
              /\ hframe.op \in {"suspend", "remove"} => htxns = <<>>
              /\ hframe.op = "suspend" =>
                     hframe'.ret = htxns'[Len(htxns')].ret
       /\ (hpc = "dis_wr" /\ hpc' # hpc) => DisableStep]_vars

\* suspend's disable() has failed to overwrite a control register that holds
\* 0xF2 and suspend is returning the error of the write
C13_Witness ==
    /\ hframe.op = "suspend"
    /\ hpc = "h_ret"
    /\ htxns = <<Txn("wr", 0, 0, -5)>>
    /\ hframe.ret = -5
    /\ main_ctrl = <<242>>

\* C14: if enable() fails during attach, attach fails with that error and
\* the device is never registered; if enable() succeeds and the registration
\* fails, attach fails and a disable() write is issued as cleanup; attach
\* returns success only when enable() and the registration both succeeded.
C14_AttachSurfacesFailure ==
    /\ (hframe.op = "probe" /\ hpc \in {"init_rd", "init_wr", "register"}) =>
           ~registered
    /\ (hframe.op = "probe" /\ hpc = "h_ret") =>
           /\ Len(htxns) \in 1..3
           /\ Len(htxns) = 1 =>
                  /\ htxns[1].ret < 0
                  /\ hframe.ret = htxns[1].ret
                  /\ ~registered
           /\ Len(htxns) = 2 /\ htxns[2].ret < 0 =>
                  /\ hframe.ret = htxns[2].ret
                  /\ ~registered
           /\ Len(htxns) = 3 =>
                  /\ htxns[1].ret >= 0 /\ htxns[2].ret = 0
                  /\ htxns[3].op = "wr" /\ htxns[3].addr = 0
                  /\ htxns[3].val = 0
                  /\ hframe.ret < 0
                  /\ ~registered
           /\ hframe.ret >= 0 =>
                  /\ hframe.ret = 0
                  /\ registered
                  /\ Len(htxns) = 2
                  /\ htxns[1].ret >= 0 /\ htxns[2].ret = 0
           /\ hframe.ret < 0 => host_after(hframe.op, hframe.ret) = "unbound"
           /\ registered => hframe.ret = 0

\* the registration failed after a successful enable(): probe has issued the
\* disable() write, which succeeded, and is returning the registration error
C14_Witness ==
    /\ hframe.op = "probe"
    /\ hpc = "h_ret"
    /\ Len(htxns) = 3
    /\ htxns[3] = Txn("wr", 0, 0, 0)
    /\ hframe.ret = -12
    /\ ~registered

\* no measurement call is in flight
NoQueryInFlight == \A t \in QueryThreads : pc[t] = "idle"

\* C15: onDetach always completes successfully, whether or not its disable()
\* write fails; it attempts disable() exactly once, and only after the device
\* has been unregistered, so that no measurement request is in flight at the
\* disable or starts after it.
C15_DetachBestEffort ==
    [][/\ (hframe.op = "remove" /\ hpc \in {"dis_wr", "h_ret"}) =>
              /\ ~registered
              /\ NoQueryInFlight
              /\ NoQueryInFlight'
       /\ (hframe.op = "remove" /\ hpc = "unregister") => htxns = <<>>
       /\ (hframe.op = "remove" /\ hpc = "dis_wr") => htxns = <<>>
       /\ (hframe.op = "remove" /\ hpc = "h_ret") =>
              /\ Len(htxns) = 1
              /\ htxns[1].op = "wr" /\ htxns[1].addr = 0 /\ htxns[1].val = 0
              /\ hframe.ret = 0
              /\ hpc' # hpc => (hpc' = "unbound" /\ ~registered')]_vars

\* remove's disable() write has failed and remove is returning 0
C15_Witness ==
    /\ hframe.op = "remove"
    /\ hpc = "h_ret"
    /\ htxns = <<Txn("wr", 0, 0, -5)>>
    /\ hframe.ret = 0
    /\ ~registered

\* call path t is in a setIntegrationTime request whose integer part is not 0
BadIntegerPartCall(t) ==
    /\ frame[t].fn = "write_raw"
    /\ frame[t].mask = "INT_TIME"
    /\ frame[t].val # 0

\* C16: a set-integration-time request whose integer part is nonzero is
\* rejected with InvalidArgument for every microsecond fraction, those of
\* the table included; it issues no bus transaction, does not take the guard
\* and leaves the cached integration time unchanged.
C16_IntegerPartRejected ==
    [][\A t \in QueryThreads :
           /\ BadIntegerPartCall(t) =>
                  /\ pc[t] = "ret"
                  /\ frame[t].rv = -EINVAL
                  /\ txns[t] = <<>>
                  /\ t \notin mutex
           /\ (BadIntegerPartCall(t) /\ pc'[t] # pc[t]) =>
                  /\ pc'[t] = "idle"
                  /\ int_time' = int_time
                  /\ mutex' = mutex
                  /\ lastSet' = lastSet]_vars

\* a request of 1 + 400000 microseconds is about to return -EINVAL while the
\* cached integration time is another table value
C16_Witness ==
    \E t \in QueryThreads :
        /\ pc[t] = "ret"
        /\ frame[t].fn = "write_raw"
        /\ frame[t].val = 1
        /\ frame[t].val2 = 400000
        /\ frame[t].rv = -EINVAL
        /\ int_time = 25000

\* call path t is in getIntegrationTime
InGetIntegrationTime(t) ==
    frame[t].fn = "read_raw" /\ frame[t].mask = "INT_TIME"

\* the step is the successful bus write of a setIntegrationTime
SuccessfulSetStep ==
    \E t \in QueryThreads :
        SetWriteStep(t) /\ txns'[t][Len(txns'[t])].ret >= 0

\* C17: getIntegrationTime performs no bus transaction and cannot fail (it
\* returns 0 + the cached microseconds); within a session the cached
\* integration time is changed by nothing but a successful
\* setIntegrationTime: no step of readChannel or getIntegrationTime and no
\* step of enable(), disable(), suspend, resume or detach changes it.
C17_CacheFrame ==
    [][/\ \A t \in QueryThreads :
              (InGetIntegrationTime(t) /\ pc'[t] # pc[t]) =>
                  /\ txns[t] = <<>> /\ txns'[t] = <<>>
                  /\ int_time' = int_time
                  /\ pc[t] = "it_lock" =>
                         /\ pc'[t] = "it_unlock"
                         /\ frame'[t].rv = IIO_VAL_INT_PLUS_MICRO
                         /\ frame'[t].out_val = 0
                         /\ frame'[t].out_val2 = int_time
       /\ \A t \in QueryThreads :
              (frame[t].fn = "read_raw" /\ pc'[t] # pc[t]) =>
                  int_time' = int_time
       /\ (hpc' # hpc /\ hpc # "unbound") => int_time' = int_time
       /\ (int_time' # int_time /\ hpc # "unbound") => SuccessfulSetStep]_vars

\* getIntegrationTime answers 400000, set before the suspend, while the
\* device is suspended
C17_Witness ==
    \E t \in QueryThreads :
        /\ pc[t] = "it_unlock"
        /\ txns[t] = <<>>
        /\ frame[t].out_val2 = 400000
        /\ int_time = 400000
        /\ hpc = "suspended"

\* every bus transaction on record
AllTxns ==
    {htxns[i] : i \in 1..Len(htxns)}
    \cup UNION {{txns[t][i] : i \in 1..Len(txns[t])} : t \in QueryThreads}

\* C18: the driver writes only to the control register (0x00) and the
\* measurement-rate register (0x04): never to the gain, interrupt or
\* threshold registers or to the data registers; the host callbacks write
\* only 0x00 and the query handlers only 0x04.
C18_WritesOnlyCtrlAndRate ==
    /\ \A x \in AllTxns : x.op = "wr" => x.addr \in {0, 4}
    /\ \A i \in 1..Len(htxns) : htxns[i].addr = 0
    /\ \A t \in QueryThreads : \A i \in 1..Len(txns[t]) :
           /\ txns[t][i].op = "wr" => txns[t][i].addr = 4
           /\ txns[t][i].op = "rd" => txns[t][i].addr \in 10..15

\* a setIntegrationTime has written register 0x04 while resume's enable()
\* has written register 0x00
C18_Witness ==
    /\ hframe.op = "resume"
    /\ Len(htxns) = 2
    /\ htxns[2].op = "wr" /\ htxns[2].ret = 0
    /\ \E t \in QueryThreads :
           /\ pc[t] = "wr_unlock"
           /\ Len(txns[t]) = 1
           /\ txns[t][1].op = "wr" /\ txns[t][1].ret = 0

\* the control register holds a byte with bit 1 (sensor enable) set
CtrlEnabled == main_ctrl # <<>> /\ (main_ctrl[1] \div 2) % 2 = 1

\* the callback at its return has run a successful enable()
EnableSucceeded ==
    /\ hpc = "h_ret"
    /\ \/ hframe.op = "resume" /\ hframe.ret = 0
       \/ hframe.op = "probe" /\ registered

\* the callback at its return has run a disable() whose write succeeded
DisableSucceeded ==
    /\ hpc = "h_ret"
    /\ htxns # <<>>
    /\ htxns[Len(htxns)] = Txn("wr", 0, 0, 0)

\* C19: with the control register holding the last successfully written
\* byte, bit 1 of it is set after every successful enable() (attach or
\* resume), it is 0 after every successful disable() (suspend, detach or
\* attach cleanup), it is still unwritten while the session has never been
\* enabled, and no step of readChannel, setIntegrationTime or
\* getIntegrationTime changes it.
C19_PowerStateMachine ==
    [][/\ EnableSucceeded' => CtrlEnabled'
       /\ DisableSucceeded' => main_ctrl' = <<0>>
       /\ (hpc = "suspended") => main_ctrl = <<0>>
       /\ (main_ctrl = <<>> /\ main_ctrl' # <<>>) =>
              (hframe.op = "probe" /\ hpc = "init_wr" /\ CtrlEnabled')
       /\ (\E t \in QueryThreads : pc'[t] # pc[t]) => main_ctrl' = main_ctrl
       /\ main_ctrl' # main_ctrl => (hpc \in {"init_wr", "dis_wr"} /\ HostTxnStep)
      ]_vars

\* resume has re-enabled a device that suspend had disabled: after the
\* successful enable() the control register holds 0xF2
C19_Witness ==
    /\ hframe.op = "resume"
    /\ EnableSucceeded
    /\ main_ctrl = <<242>>

\* the positions at which a call path holds the guard
HoldingGuard == {"rd0", "rd1", "rd2", "rr_unlock", "it_unlock", "wr_bus",
                 "wr_unlock"}

\* C20: a call of the query surface that acquired the session guard releases
\* it before it returns, on success and on every error path: the guard is
\* held by exactly the call paths inside a critical section (at most one),
\* so it is free whenever no query is in progress and a call that has
\* returned never keeps a later one waiting.
C20_GuardReleased ==
    /\ mutex = {t \in QueryThreads : pc[t] \in HoldingGuard}
    /\ Cardinality(mutex) <= 1
    /\ NoQueryInFlight => mutex = {}

\* setIntegrationTime is on its InvalidArgument path and still holds the
\* guard, for which a readChannel of another call path is waiting
C20_Witness ==
    \E t \in QueryThreads : \E u \in QueryThreads \ {t} :
        /\ pc[t] = "wr_unlock"
        /\ frame[t].rv = -EINVAL
        /\ mutex = {t}
        /\ pc[u] = "rr_lock"

=============================================================================
